---- MODULE Spec2Model ----
(***************************************************************************)
(* A model of scripts/lambda_lang.py: the scanner (LambdaParser.tokenize), *)
(* the resolver (LambdaParser.lookup, parse_disambig), the context         *)
(* operations (set_domain, clear_domains, define) and the two renderers    *)
(* (translate_to_english, translate_to_chinese).                           *)
(*                                                                         *)
(* A Python string is a sequence of one-character strings, so that it can  *)
(* be indexed and sliced; Str turns such a sequence into a TLA+ string.    *)
(* Positions are 1-based: the model's i is Python's i + 1, and a failed    *)
(* find is 0 where Python returns -1.                                      *)
(*                                                                         *)
(* The vocabulary document atoms.json is read at start-up (lines 15-17)    *)
(* and is not part of the sources.  TYPES, ENTITIES, VERBS, MODIFIERS,     *)
(* EXTENDED_ATOMS, DISCOURSE_ATOMS, EMOTION_ATOMS and DOMAIN_ATOMS are a   *)
(* small vocabulary of the shape spec.md sections 3 and 6 give, holding    *)
(* the entries the test table (lines 484-496) relies on.  DISAMBIG is the  *)
(* table of lines 49-102.  The Chinese renderings are written in pinyin    *)
(* (the module is ASCII): "jueding" stands for the string of line 51.      *)
(***************************************************************************)
EXTENDS Naturals, Sequences, FiniteSets, TLC

VARIABLES
    msg,             \* the string being tokenized
    lang,            \* "en" | "zh": which translate_to_* is running; "" in a host session
    pc,              \* position of the running call
    i,               \* tokenize: the scan position
    tokens,          \* tokenize: the tokens emitted so far
    active_domains,  \* LambdaParser.active_domains
    definitions,     \* LambdaParser.definitions
    raised,          \* an exception escaped (KeyError in lookup)
    t,               \* translate_to_*: index of the token of the for loop
    parts,           \* translate_to_*: parts
    msg_type,        \* translate_to_*: msg_type
    result,          \* translate_to_*: the string returned
    ncalls,          \* host session: calls made so far
    last,            \* host session: the most recent lookup call and what it returned
    starts,          \* history: the position at which each token started
    kinds,           \* history: the check that emitted each token
    ctxAt,           \* history: the context when each token was emitted
    src,             \* history: the token index each element of parts came from
    activations      \* history: the domain codes activation was asked for, since the last clear

vars == <<msg, lang, pc, i, tokens, active_domains, definitions, raised, t, parts,
          msg_type, result, ncalls, last, starts, kinds, ctxAt, src, activations>>

-----------------------------------------------------------------------------
(* Bounds of the model. *)

MaxFrags == 3
MaxCalls == 3

-----------------------------------------------------------------------------
(* Python string primitives. *)

\* A code point above U+00FF cannot stand in a string of this module: it is written
\* as its Python escape, so "\\u3000" is the one character U+3000 and
\* "\\U0001d41a" the one character U+1D41A.
\* The whitespace of Unicode above U+00FF.
WideWhitespace ==
    {"\\u1680", "\\u2000", "\\u2001", "\\u2002", "\\u2003", "\\u2004",
     "\\u2005", "\\u2006", "\\u2007", "\\u2008", "\\u2009", "\\u200a",
     "\\u2028", "\\u2029", "\\u202f", "\\u205f", "\\u3000"}

\* str.isspace() (lines 192, 265) and str.strip() (line 210): space, tab, newline,
\* carriage return, form feed, U+000B, U+001C to U+001F, U+0085, U+00A0 and the
\* whitespace above U+00FF.
Whitespace ==
    {"\t", "\n", "\f", "\r", " ", "", "", "", "", "", "", " "}
        \cup WideWhitespace

LowerLetters ==
    {"a","b","c","d","e","f","g","h","i","j","k","l","m",
     "n","o","p","q","r","s","t","u","v","w","x","y","z"}

\* The lowercase letters of Latin-1 outside a-z: the characters c of U+0080 to
\* U+00FF with c.isalpha() and c.islower().
Latin1Lower ==
    {"ª", "µ", "º", "ß", "à", "á", "â", "ã", "ä", "å", "æ", "ç",
     "è", "é", "ê", "ë", "ì", "í", "î", "ï", "ð", "ñ", "ò", "ó",
     "ô", "õ", "ö", "ø", "ù", "ú", "û", "ü", "ý", "þ", "ÿ"}

Hex == <<"0", "1", "2", "3", "4", "5", "6", "7", "8", "9", "a", "b", "c", "d", "e", "f">>

HexValue(h) == CHOOSE k \in 0..15 : Hex[k + 1] = h

RECURSIVE HexNumber(_)
HexNumber(s) ==
    IF s = "" THEN 0
    ELSE 16 * HexNumber(SubSeq(s, 1, Len(s) - 1)) + HexValue(SubSeq(s, Len(s), Len(s)))

\* A character written as an escape ("\\u0434", "\\U0001d41a") is wide.
IsWide(c) == Len(c) > 1

\* ord(c) of a wide character
CodePoint(c) == HexNumber(SubSeq(c, 3, Len(c)))

\* <<first, last, step>> is in a table of code points: first, first + step, ... up to last
InRanges(n, table) ==
    \E r \in table : r[1] <= n /\ n <= r[2] /\ (n - r[1]) % r[3] = 0

\* The code points above U+00FF of the characters c with c.isalpha() and c.islower()
\* (Unicode 14.0.0, the character database of the Python 3.11 that runs the code).
WideLowerRanges ==
    { <<257, 309, 2>>, <<311, 312, 1>>, <<314, 326, 2>>, <<328, 329, 1>>, <<331, 375, 2>>,
      <<378, 380, 2>>, <<382, 384, 1>>, <<387, 389, 2>>, <<392, 392, 1>>, <<396, 397, 1>>,
      <<402, 402, 1>>, <<405, 405, 1>>, <<409, 411, 1>>, <<414, 414, 1>>, <<417, 421, 2>>,
      <<424, 424, 1>>, <<426, 427, 1>>, <<429, 429, 1>>, <<432, 432, 1>>, <<436, 438, 2>>,
      <<441, 442, 1>>, <<445, 447, 1>>, <<454, 454, 1>>, <<457, 457, 1>>, <<460, 474, 2>>,
      <<476, 477, 1>>, <<479, 493, 2>>, <<495, 496, 1>>, <<499, 501, 2>>, <<505, 561, 2>>,
      <<563, 569, 1>>, <<572, 572, 1>>, <<575, 576, 1>>, <<578, 578, 1>>, <<583, 589, 2>>,
      <<591, 659, 1>>, <<661, 696, 1>>, <<704, 705, 1>>, <<736, 740, 1>>, <<881, 883, 2>>,
      <<887, 887, 1>>, <<890, 893, 1>>, <<912, 912, 1>>, <<940, 974, 1>>, <<976, 977, 1>>,
      <<981, 983, 1>>, <<985, 1005, 2>>, <<1007, 1011, 1>>, <<1013, 1013, 1>>, <<1016, 1016, 1>>,
      <<1019, 1020, 1>>, <<1072, 1119, 1>>, <<1121, 1153, 2>>, <<1163, 1215, 2>>, <<1218, 1228, 2>>,
      <<1230, 1231, 1>>, <<1233, 1327, 2>>, <<1376, 1416, 1>>, <<4304, 4346, 1>>, <<4349, 4351, 1>>,
      <<5112, 5117, 1>>, <<7296, 7304, 1>>, <<7424, 7615, 1>>, <<7681, 7827, 2>>, <<7829, 7837, 1>>,
      <<7839, 7933, 2>>, <<7935, 7943, 1>>, <<7952, 7957, 1>>, <<7968, 7975, 1>>, <<7984, 7991, 1>>,
      <<8000, 8005, 1>>, <<8016, 8023, 1>>, <<8032, 8039, 1>>, <<8048, 8061, 1>>, <<8064, 8071, 1>>,
      <<8080, 8087, 1>>, <<8096, 8103, 1>>, <<8112, 8116, 1>>, <<8118, 8119, 1>>, <<8126, 8126, 1>>,
      <<8130, 8132, 1>>, <<8134, 8135, 1>>, <<8144, 8147, 1>>, <<8150, 8151, 1>>, <<8160, 8167, 1>>,
      <<8178, 8180, 1>>, <<8182, 8183, 1>>, <<8305, 8305, 1>>, <<8319, 8319, 1>>, <<8336, 8348, 1>>,
      <<8458, 8458, 1>>, <<8462, 8463, 1>>, <<8467, 8467, 1>>, <<8495, 8495, 1>>, <<8500, 8500, 1>>,
      <<8505, 8505, 1>>, <<8508, 8509, 1>>, <<8518, 8521, 1>>, <<8526, 8526, 1>>, <<8580, 8580, 1>>,
      <<11312, 11359, 1>>, <<11361, 11361, 1>>, <<11365, 11366, 1>>, <<11368, 11372, 2>>, <<11377, 11377, 1>>,
      <<11379, 11380, 1>>, <<11382, 11389, 1>>, <<11393, 11489, 2>>, <<11491, 11492, 1>>, <<11500, 11502, 2>>,
      <<11507, 11507, 1>>, <<11520, 11557, 1>>, <<11559, 11559, 1>>, <<11565, 11565, 1>>, <<42561, 42605, 2>>,
      <<42625, 42649, 2>>, <<42651, 42653, 1>>, <<42787, 42797, 2>>, <<42799, 42801, 1>>, <<42803, 42861, 2>>,
      <<42863, 42872, 1>>, <<42874, 42876, 2>>, <<42879, 42887, 2>>, <<42892, 42894, 2>>, <<42897, 42897, 1>>,
      <<42899, 42901, 1>>, <<42903, 42921, 2>>, <<42927, 42927, 1>>, <<42933, 42947, 2>>, <<42952, 42954, 2>>,
      <<42961, 42969, 2>>, <<42998, 42998, 1>>, <<43000, 43002, 1>>, <<43824, 43866, 1>>, <<43868, 43880, 1>>,
      <<43888, 43967, 1>>, <<64256, 64262, 1>>, <<64275, 64279, 1>>, <<65345, 65370, 1>>, <<66600, 66639, 1>>,
      <<66776, 66811, 1>>, <<66967, 66977, 1>>, <<66979, 66993, 1>>, <<66995, 67001, 1>>, <<67003, 67004, 1>>,
      <<67456, 67456, 1>>, <<67459, 67461, 1>>, <<67463, 67504, 1>>, <<67506, 67514, 1>>, <<68800, 68850, 1>>,
      <<71872, 71903, 1>>, <<93792, 93823, 1>>, <<119834, 119859, 1>>, <<119886, 119892, 1>>, <<119894, 119911, 1>>,
      <<119938, 119963, 1>>, <<119990, 119993, 1>>, <<119995, 119995, 1>>, <<119997, 120003, 1>>, <<120005, 120015, 1>>,
      <<120042, 120067, 1>>, <<120094, 120119, 1>>, <<120146, 120171, 1>>, <<120198, 120223, 1>>, <<120250, 120275, 1>>,
      <<120302, 120327, 1>>, <<120354, 120379, 1>>, <<120406, 120431, 1>>, <<120458, 120485, 1>>, <<120514, 120538, 1>>,
      <<120540, 120545, 1>>, <<120572, 120596, 1>>, <<120598, 120603, 1>>, <<120630, 120654, 1>>, <<120656, 120661, 1>>,
      <<120688, 120712, 1>>, <<120714, 120719, 1>>, <<120746, 120770, 1>>, <<120772, 120777, 1>>, <<120779, 120779, 1>>,
      <<122624, 122633, 1>>, <<122635, 122654, 1>>, <<125218, 125251, 1>> }

\* The code points above U+00FF of the characters c with c.isalpha() and none of
\* c.islower(), c.isupper(), c.istitle(): letters without case.  Up to U+00FF there
\* is none.
WideUncasedRanges ==
    { <<443, 443, 1>>, <<448, 451, 1>>, <<660, 660, 1>>, <<697, 703, 1>>, <<710, 721, 1>>,
      <<748, 748, 1>>, <<750, 750, 1>>, <<884, 884, 1>>, <<1369, 1369, 1>>, <<1488, 1514, 1>>,
      <<1519, 1522, 1>>, <<1568, 1610, 1>>, <<1646, 1647, 1>>, <<1649, 1747, 1>>, <<1749, 1749, 1>>,
      <<1765, 1766, 1>>, <<1774, 1775, 1>>, <<1786, 1788, 1>>, <<1791, 1791, 1>>, <<1808, 1808, 1>>,
      <<1810, 1839, 1>>, <<1869, 1957, 1>>, <<1969, 1969, 1>>, <<1994, 2026, 1>>, <<2036, 2037, 1>>,
      <<2042, 2042, 1>>, <<2048, 2069, 1>>, <<2074, 2074, 1>>, <<2084, 2084, 1>>, <<2088, 2088, 1>>,
      <<2112, 2136, 1>>, <<2144, 2154, 1>>, <<2160, 2183, 1>>, <<2185, 2190, 1>>, <<2208, 2249, 1>>,
      <<2308, 2361, 1>>, <<2365, 2365, 1>>, <<2384, 2384, 1>>, <<2392, 2401, 1>>, <<2417, 2432, 1>>,
      <<2437, 2444, 1>>, <<2447, 2448, 1>>, <<2451, 2472, 1>>, <<2474, 2480, 1>>, <<2482, 2482, 1>>,
      <<2486, 2489, 1>>, <<2493, 2493, 1>>, <<2510, 2510, 1>>, <<2524, 2525, 1>>, <<2527, 2529, 1>>,
      <<2544, 2545, 1>>, <<2556, 2556, 1>>, <<2565, 2570, 1>>, <<2575, 2576, 1>>, <<2579, 2600, 1>>,
      <<2602, 2608, 1>>, <<2610, 2611, 1>>, <<2613, 2614, 1>>, <<2616, 2617, 1>>, <<2649, 2652, 1>>,
      <<2654, 2654, 1>>, <<2674, 2676, 1>>, <<2693, 2701, 1>>, <<2703, 2705, 1>>, <<2707, 2728, 1>>,
      <<2730, 2736, 1>>, <<2738, 2739, 1>>, <<2741, 2745, 1>>, <<2749, 2749, 1>>, <<2768, 2768, 1>>,
      <<2784, 2785, 1>>, <<2809, 2809, 1>>, <<2821, 2828, 1>>, <<2831, 2832, 1>>, <<2835, 2856, 1>>,
      <<2858, 2864, 1>>, <<2866, 2867, 1>>, <<2869, 2873, 1>>, <<2877, 2877, 1>>, <<2908, 2909, 1>>,
      <<2911, 2913, 1>>, <<2929, 2929, 1>>, <<2947, 2947, 1>>, <<2949, 2954, 1>>, <<2958, 2960, 1>>,
      <<2962, 2965, 1>>, <<2969, 2970, 1>>, <<2972, 2972, 1>>, <<2974, 2975, 1>>, <<2979, 2980, 1>>,
      <<2984, 2986, 1>>, <<2990, 3001, 1>>, <<3024, 3024, 1>>, <<3077, 3084, 1>>, <<3086, 3088, 1>>,
      <<3090, 3112, 1>>, <<3114, 3129, 1>>, <<3133, 3133, 1>>, <<3160, 3162, 1>>, <<3165, 3165, 1>>,
      <<3168, 3169, 1>>, <<3200, 3200, 1>>, <<3205, 3212, 1>>, <<3214, 3216, 1>>, <<3218, 3240, 1>>,
      <<3242, 3251, 1>>, <<3253, 3257, 1>>, <<3261, 3261, 1>>, <<3293, 3294, 1>>, <<3296, 3297, 1>>,
      <<3313, 3314, 1>>, <<3332, 3340, 1>>, <<3342, 3344, 1>>, <<3346, 3386, 1>>, <<3389, 3389, 1>>,
      <<3406, 3406, 1>>, <<3412, 3414, 1>>, <<3423, 3425, 1>>, <<3450, 3455, 1>>, <<3461, 3478, 1>>,
      <<3482, 3505, 1>>, <<3507, 3515, 1>>, <<3517, 3517, 1>>, <<3520, 3526, 1>>, <<3585, 3632, 1>>,
      <<3634, 3635, 1>>, <<3648, 3654, 1>>, <<3713, 3714, 1>>, <<3716, 3716, 1>>, <<3718, 3722, 1>>,
      <<3724, 3747, 1>>, <<3749, 3749, 1>>, <<3751, 3760, 1>>, <<3762, 3763, 1>>, <<3773, 3773, 1>>,
      <<3776, 3780, 1>>, <<3782, 3782, 1>>, <<3804, 3807, 1>>, <<3840, 3840, 1>>, <<3904, 3911, 1>>,
      <<3913, 3948, 1>>, <<3976, 3980, 1>>, <<4096, 4138, 1>>, <<4159, 4159, 1>>, <<4176, 4181, 1>>,
      <<4186, 4189, 1>>, <<4193, 4193, 1>>, <<4197, 4198, 1>>, <<4206, 4208, 1>>, <<4213, 4225, 1>>,
      <<4238, 4238, 1>>, <<4348, 4348, 1>>, <<4352, 4680, 1>>, <<4682, 4685, 1>>, <<4688, 4694, 1>>,
      <<4696, 4696, 1>>, <<4698, 4701, 1>>, <<4704, 4744, 1>>, <<4746, 4749, 1>>, <<4752, 4784, 1>>,
      <<4786, 4789, 1>>, <<4792, 4798, 1>>, <<4800, 4800, 1>>, <<4802, 4805, 1>>, <<4808, 4822, 1>>,
      <<4824, 4880, 1>>, <<4882, 4885, 1>>, <<4888, 4954, 1>>, <<4992, 5007, 1>>, <<5121, 5740, 1>>,
      <<5743, 5759, 1>>, <<5761, 5786, 1>>, <<5792, 5866, 1>>, <<5873, 5880, 1>>, <<5888, 5905, 1>>,
      <<5919, 5937, 1>>, <<5952, 5969, 1>>, <<5984, 5996, 1>>, <<5998, 6000, 1>>, <<6016, 6067, 1>>,
      <<6103, 6103, 1>>, <<6108, 6108, 1>>, <<6176, 6264, 1>>, <<6272, 6276, 1>>, <<6279, 6312, 1>>,
      <<6314, 6314, 1>>, <<6320, 6389, 1>>, <<6400, 6430, 1>>, <<6480, 6509, 1>>, <<6512, 6516, 1>>,
      <<6528, 6571, 1>>, <<6576, 6601, 1>>, <<6656, 6678, 1>>, <<6688, 6740, 1>>, <<6823, 6823, 1>>,
      <<6917, 6963, 1>>, <<6981, 6988, 1>>, <<7043, 7072, 1>>, <<7086, 7087, 1>>, <<7098, 7141, 1>>,
      <<7168, 7203, 1>>, <<7245, 7247, 1>>, <<7258, 7293, 1>>, <<7401, 7404, 1>>, <<7406, 7411, 1>>,
      <<7413, 7414, 1>>, <<7418, 7418, 1>>, <<8501, 8504, 1>>, <<11568, 11623, 1>>, <<11631, 11631, 1>>,
      <<11648, 11670, 1>>, <<11680, 11686, 1>>, <<11688, 11694, 1>>, <<11696, 11702, 1>>, <<11704, 11710, 1>>,
      <<11712, 11718, 1>>, <<11720, 11726, 1>>, <<11728, 11734, 1>>, <<11736, 11742, 1>>, <<11823, 11823, 1>>,
      <<12293, 12294, 1>>, <<12337, 12341, 1>>, <<12347, 12348, 1>>, <<12353, 12438, 1>>, <<12445, 12447, 1>>,
      <<12449, 12538, 1>>, <<12540, 12543, 1>>, <<12549, 12591, 1>>, <<12593, 12686, 1>>, <<12704, 12735, 1>>,
      <<12784, 12799, 1>>, <<13312, 19903, 1>>, <<19968, 42124, 1>>, <<42192, 42237, 1>>, <<42240, 42508, 1>>,
      <<42512, 42527, 1>>, <<42538, 42539, 1>>, <<42606, 42606, 1>>, <<42623, 42623, 1>>, <<42656, 42725, 1>>,
      <<42775, 42783, 1>>, <<42888, 42888, 1>>, <<42895, 42895, 1>>, <<42994, 42996, 1>>, <<42999, 42999, 1>>,
      <<43003, 43009, 1>>, <<43011, 43013, 1>>, <<43015, 43018, 1>>, <<43020, 43042, 1>>, <<43072, 43123, 1>>,
      <<43138, 43187, 1>>, <<43250, 43255, 1>>, <<43259, 43259, 1>>, <<43261, 43262, 1>>, <<43274, 43301, 1>>,
      <<43312, 43334, 1>>, <<43360, 43388, 1>>, <<43396, 43442, 1>>, <<43471, 43471, 1>>, <<43488, 43492, 1>>,
      <<43494, 43503, 1>>, <<43514, 43518, 1>>, <<43520, 43560, 1>>, <<43584, 43586, 1>>, <<43588, 43595, 1>>,
      <<43616, 43638, 1>>, <<43642, 43642, 1>>, <<43646, 43695, 1>>, <<43697, 43697, 1>>, <<43701, 43702, 1>>,
      <<43705, 43709, 1>>, <<43712, 43712, 1>>, <<43714, 43714, 1>>, <<43739, 43741, 1>>, <<43744, 43754, 1>>,
      <<43762, 43764, 1>>, <<43777, 43782, 1>>, <<43785, 43790, 1>>, <<43793, 43798, 1>>, <<43808, 43814, 1>>,
      <<43816, 43822, 1>>, <<43881, 43881, 1>>, <<43968, 44002, 1>>, <<44032, 55203, 1>>, <<55216, 55238, 1>>,
      <<55243, 55291, 1>>, <<63744, 64109, 1>>, <<64112, 64217, 1>>, <<64285, 64285, 1>>, <<64287, 64296, 1>>,
      <<64298, 64310, 1>>, <<64312, 64316, 1>>, <<64318, 64318, 1>>, <<64320, 64321, 1>>, <<64323, 64324, 1>>,
      <<64326, 64433, 1>>, <<64467, 64829, 1>>, <<64848, 64911, 1>>, <<64914, 64967, 1>>, <<65008, 65019, 1>>,
      <<65136, 65140, 1>>, <<65142, 65276, 1>>, <<65382, 65470, 1>>, <<65474, 65479, 1>>, <<65482, 65487, 1>>,
      <<65490, 65495, 1>>, <<65498, 65500, 1>>, <<65536, 65547, 1>>, <<65549, 65574, 1>>, <<65576, 65594, 1>>,
      <<65596, 65597, 1>>, <<65599, 65613, 1>>, <<65616, 65629, 1>>, <<65664, 65786, 1>>, <<66176, 66204, 1>>,
      <<66208, 66256, 1>>, <<66304, 66335, 1>>, <<66349, 66368, 1>>, <<66370, 66377, 1>>, <<66384, 66421, 1>>,
      <<66432, 66461, 1>>, <<66464, 66499, 1>>, <<66504, 66511, 1>>, <<66640, 66717, 1>>, <<66816, 66855, 1>>,
      <<66864, 66915, 1>>, <<67072, 67382, 1>>, <<67392, 67413, 1>>, <<67424, 67431, 1>>, <<67457, 67458, 1>>,
      <<67584, 67589, 1>>, <<67592, 67592, 1>>, <<67594, 67637, 1>>, <<67639, 67640, 1>>, <<67644, 67644, 1>>,
      <<67647, 67669, 1>>, <<67680, 67702, 1>>, <<67712, 67742, 1>>, <<67808, 67826, 1>>, <<67828, 67829, 1>>,
      <<67840, 67861, 1>>, <<67872, 67897, 1>>, <<67968, 68023, 1>>, <<68030, 68031, 1>>, <<68096, 68096, 1>>,
      <<68112, 68115, 1>>, <<68117, 68119, 1>>, <<68121, 68149, 1>>, <<68192, 68220, 1>>, <<68224, 68252, 1>>,
      <<68288, 68295, 1>>, <<68297, 68324, 1>>, <<68352, 68405, 1>>, <<68416, 68437, 1>>, <<68448, 68466, 1>>,
      <<68480, 68497, 1>>, <<68608, 68680, 1>>, <<68864, 68899, 1>>, <<69248, 69289, 1>>, <<69296, 69297, 1>>,
      <<69376, 69404, 1>>, <<69415, 69415, 1>>, <<69424, 69445, 1>>, <<69488, 69505, 1>>, <<69552, 69572, 1>>,
      <<69600, 69622, 1>>, <<69635, 69687, 1>>, <<69745, 69746, 1>>, <<69749, 69749, 1>>, <<69763, 69807, 1>>,
      <<69840, 69864, 1>>, <<69891, 69926, 1>>, <<69956, 69956, 1>>, <<69959, 69959, 1>>, <<69968, 70002, 1>>,
      <<70006, 70006, 1>>, <<70019, 70066, 1>>, <<70081, 70084, 1>>, <<70106, 70106, 1>>, <<70108, 70108, 1>>,
      <<70144, 70161, 1>>, <<70163, 70187, 1>>, <<70272, 70278, 1>>, <<70280, 70280, 1>>, <<70282, 70285, 1>>,
      <<70287, 70301, 1>>, <<70303, 70312, 1>>, <<70320, 70366, 1>>, <<70405, 70412, 1>>, <<70415, 70416, 1>>,
      <<70419, 70440, 1>>, <<70442, 70448, 1>>, <<70450, 70451, 1>>, <<70453, 70457, 1>>, <<70461, 70461, 1>>,
      <<70480, 70480, 1>>, <<70493, 70497, 1>>, <<70656, 70708, 1>>, <<70727, 70730, 1>>, <<70751, 70753, 1>>,
      <<70784, 70831, 1>>, <<70852, 70853, 1>>, <<70855, 70855, 1>>, <<71040, 71086, 1>>, <<71128, 71131, 1>>,
      <<71168, 71215, 1>>, <<71236, 71236, 1>>, <<71296, 71338, 1>>, <<71352, 71352, 1>>, <<71424, 71450, 1>>,
      <<71488, 71494, 1>>, <<71680, 71723, 1>>, <<71935, 71942, 1>>, <<71945, 71945, 1>>, <<71948, 71955, 1>>,
      <<71957, 71958, 1>>, <<71960, 71983, 1>>, <<71999, 71999, 1>>, <<72001, 72001, 1>>, <<72096, 72103, 1>>,
      <<72106, 72144, 1>>, <<72161, 72161, 1>>, <<72163, 72163, 1>>, <<72192, 72192, 1>>, <<72203, 72242, 1>>,
      <<72250, 72250, 1>>, <<72272, 72272, 1>>, <<72284, 72329, 1>>, <<72349, 72349, 1>>, <<72368, 72440, 1>>,
      <<72704, 72712, 1>>, <<72714, 72750, 1>>, <<72768, 72768, 1>>, <<72818, 72847, 1>>, <<72960, 72966, 1>>,
      <<72968, 72969, 1>>, <<72971, 73008, 1>>, <<73030, 73030, 1>>, <<73056, 73061, 1>>, <<73063, 73064, 1>>,
      <<73066, 73097, 1>>, <<73112, 73112, 1>>, <<73440, 73458, 1>>, <<73648, 73648, 1>>, <<73728, 74649, 1>>,
      <<74880, 75075, 1>>, <<77712, 77808, 1>>, <<77824, 78894, 1>>, <<82944, 83526, 1>>, <<92160, 92728, 1>>,
      <<92736, 92766, 1>>, <<92784, 92862, 1>>, <<92880, 92909, 1>>, <<92928, 92975, 1>>, <<92992, 92995, 1>>,
      <<93027, 93047, 1>>, <<93053, 93071, 1>>, <<93952, 94026, 1>>, <<94032, 94032, 1>>, <<94099, 94111, 1>>,
      <<94176, 94177, 1>>, <<94179, 94179, 1>>, <<94208, 100343, 1>>, <<100352, 101589, 1>>, <<101632, 101640, 1>>,
      <<110576, 110579, 1>>, <<110581, 110587, 1>>, <<110589, 110590, 1>>, <<110592, 110882, 1>>, <<110928, 110930, 1>>,
      <<110948, 110951, 1>>, <<110960, 111355, 1>>, <<113664, 113770, 1>>, <<113776, 113788, 1>>, <<113792, 113800, 1>>,
      <<113808, 113817, 1>>, <<122634, 122634, 1>>, <<123136, 123180, 1>>, <<123191, 123197, 1>>, <<123214, 123214, 1>>,
      <<123536, 123565, 1>>, <<123584, 123627, 1>>, <<124896, 124902, 1>>, <<124904, 124907, 1>>, <<124909, 124910, 1>>,
      <<124912, 124926, 1>>, <<124928, 125124, 1>>, <<125259, 125259, 1>>, <<126464, 126467, 1>>, <<126469, 126495, 1>>,
      <<126497, 126498, 1>>, <<126500, 126500, 1>>, <<126503, 126503, 1>>, <<126505, 126514, 1>>, <<126516, 126519, 1>>,
      <<126521, 126521, 1>>, <<126523, 126523, 1>>, <<126530, 126530, 1>>, <<126535, 126535, 1>>, <<126537, 126537, 1>>,
      <<126539, 126539, 1>>, <<126541, 126543, 1>>, <<126545, 126546, 1>>, <<126548, 126548, 1>>, <<126551, 126551, 1>>,
      <<126553, 126553, 1>>, <<126555, 126555, 1>>, <<126557, 126557, 1>>, <<126559, 126559, 1>>, <<126561, 126562, 1>>,
      <<126564, 126564, 1>>, <<126567, 126570, 1>>, <<126572, 126578, 1>>, <<126580, 126583, 1>>, <<126585, 126588, 1>>,
      <<126590, 126590, 1>>, <<126592, 126601, 1>>, <<126603, 126619, 1>>, <<126625, 126627, 1>>, <<126629, 126633, 1>>,
      <<126635, 126651, 1>>, <<131072, 173791, 1>>, <<173824, 177976, 1>>, <<177984, 178205, 1>>, <<178208, 183969, 1>>,
      <<183984, 191456, 1>>, <<194560, 195101, 1>>, <<196608, 201546, 1>> }

\* c.isalpha() and c.islower() (line 244)
Lowercase(c) ==
    \/ c \in LowerLetters \cup Latin1Lower
    \/ IsWide(c) /\ InRanges(CodePoint(c), WideLowerRanges)

\* c.isalpha() and c has no case (line 244)
UncasedLetters(c) == IsWide(c) /\ InRanges(CodePoint(c), WideUncasedRanges)

RECURSIVE Str(_)
Str(s) == IF s = <<>> THEN "" ELSE Head(s) \o Str(Tail(s))

\* s.find(c, from): the first position >= from holding c, 0 when there is none
Find(s, c, from) ==
    LET hits == {j \in from..Len(s) : s[j] = c}
    IN  IF hits = {} THEN 0 ELSE CHOOSE j \in hits : \A k \in hits : j <= k

Contains(s, c) == \E j \in 1..Len(s) : s[j] = c

StartsWith(s, p) == Len(s) >= Len(p) /\ SubSeq(s, 1, Len(p)) = p

EndsWith(s, c) == Len(s) >= 1 /\ s[Len(s)] = c

\* s.split(c, 1) of a string that contains c
SplitOnce(s, c) ==
    LET j == Find(s, c, 1)
    IN  <<SubSeq(s, 1, j - 1), SubSeq(s, j + 1, Len(s))>>

\* s.split(c)
RECURSIVE Split(_, _)
Split(s, c) ==
    LET j == Find(s, c, 1)
    IN  IF j = 0 THEN <<s>>
        ELSE <<SubSeq(s, 1, j - 1)>> \o Split(SubSeq(s, j + 1, Len(s)), c)

\* s.strip(chars)
RECURSIVE StripLeft(_, _)
StripLeft(s, cs) ==
    IF s # <<>> /\ Head(s) \in cs THEN StripLeft(Tail(s), cs) ELSE s

RECURSIVE StripRight(_, _)
StripRight(s, cs) ==
    IF s # <<>> /\ s[Len(s)] \in cs THEN StripRight(SubSeq(s, 1, Len(s) - 1), cs) ELSE s

Strip(s, cs) == StripRight(StripLeft(s, cs), cs)

\* needle in hay, for strings: a substring test
IsSubstring(needle, hay) ==
    \E a \in 1..(Len(hay) + 1) :
        a + Len(needle) - 1 <= Len(hay) /\ SubSeq(hay, a, a + Len(needle) - 1) = needle

-----------------------------------------------------------------------------
(* The vocabulary (atoms.json) and the tables built from it. *)

Entry(en, zh) == [en |-> en, zh |-> zh]

TYPES ==
    (<<"?">> :> Entry("query", "chaxun")) @@
    (<<"!">> :> Entry("assert", "duanyan")) @@
    (<<".">> :> Entry("command", "mingling"))

ENTITIES ==
    (<<"I">> :> Entry("I", "wo")) @@
    (<<"U">> :> Entry("you", "ni"))

VERBS ==
    (<<"k">> :> Entry("know", "zhidao")) @@
    (<<"t">> :> Entry("think", "xiang")) @@
    (<<"f">> :> Entry("find", "zhao")) @@
    (<<"e">> :> Entry("exist", "cunzai"))

MODIFIERS ==
    (<<"/">> :> Entry("about", "guanyu")) @@
    (<<">">> :> Entry("therefore", "suoyi"))

TIME ==
    (<<"p">> :> Entry("past", "guoqu"))

QUANTIFIERS ==
    (<<"*">> :> Entry("all", "suoyou"))

ASPECT ==
    (<<"%">> :> Entry("ongoing", "jinxing"))

DISCOURSE_ATOMS ==
    (<<">", ">">> :> Entry("leads to", "daozhi")) @@
    (<<"<", "<">> :> Entry("follows from", "yuanyu"))

EMOTION_ATOMS ==
    (<<"^", "^">> :> Entry("joy", "xiyue"))

DOMAIN_ATOMS ==
    (<<"c", "d">> :>
        ((<<"f", "n">> :> Entry("function", "hanshu")) @@
         (<<"b", "g">> :> Entry("bug", "cuowu")) @@
         (<<"x", "q">> :> Entry("query plan", "chaxunjihua")))) @@
    (<<"s", "c">> :>
        ((<<"f", "n">> :> Entry("formula", "gongshi")) @@
         (<<"x", "p">> :> Entry("experiment", "shiyan"))))

Primary == <<"p", "r", "i", "m", "a", "r", "y">>

DISAMBIG ==
    (<<"d", "e">> :> ((Primary :> Entry("decide", "jueding")) @@ (<<"E">> :> Entry("death", "siwang")))) @@
    (<<"l", "o">> :> ((Primary :> Entry("love", "ai")) @@ (<<"-">> :> Entry("lose", "shiqu")))) @@
    (<<"f", "e">> :> ((Primary :> Entry("feel", "ganjue")) @@ (<<"E">> :> Entry("fear", "kongju")))) @@
    (<<"t", "r">> :> ((Primary :> Entry("truth", "zhenli")) @@ (<<"V">> :> Entry("translate", "fanyi")))) @@
    (<<"w", "o">> :> ((Primary :> Entry("word", "ci")) @@ (<<"2">> :> Entry("world", "shijie")))) @@
    (<<"s", "e">> :> ((Primary :> Entry("self", "ziwo")) @@ (<<"V">> :> Entry("seek", "xunzhao")))) @@
    (<<"b", "e">> :> ((Primary :> Entry("belief", "xinnian")) @@ (<<"V">> :> Entry("begin", "kaishi")))) @@
    (<<"s", "h">> :> ((Primary :> Entry("share", "fenxiang")) @@ (<<"2">> :> Entry("show", "zhanshi")))) @@
    (<<"c", "h">> :> ((Primary :> Entry("change", "bianhua")) @@ (<<"2">> :> Entry("choose", "xuanze")))) @@
    (<<"n", "e">> :> ((Primary :> Entry("need", "xuyao")) @@ (<<"S">> :> Entry("new", "xin")))) @@
    (<<"p", "r">> :> ((Primary :> Entry("process", "guocheng")) @@ (<<"2">> :> Entry("precision", "jingque")))) @@
    (<<"e", "x">> :> ((Primary :> Entry("experience", "tiyan")) @@ (<<"V">> :> Entry("express", "biaoda")))) @@
    (<<"l", "i">> :> ((Primary :> Entry("life", "shengming")) @@ (<<"V">> :> Entry("listen", "qingting"))))

\* Every disambiguation key is an extended atom too, with its primary meaning.
EXTENDED_ATOMS ==
    (<<"c", "o">> :> Entry("consciousness", "yishi")) @@
    [k \in DOMAIN DISAMBIG |-> DISAMBIG[k][Primary]]

\* for category in [...]: for k, v in ...: CORE_LOOKUP[k] = v  (a later category
\* overwrites an earlier one)
\* lines 20-23: the seven categories merged in order, a later one overwriting an
\* earlier one on a shared key (f @@ g takes f where both are defined)
CORE_LOOKUP == ASPECT @@ QUANTIFIERS @@ TIME @@ MODIFIERS @@ VERBS @@ ENTITIES @@ TYPES

EXTENDED_LOOKUP == EXTENDED_ATOMS

DISCOURSE_LOOKUP == DISCOURSE_ATOMS

EMOTION_LOOKUP == EMOTION_ATOMS

DOMAIN_LOOKUP == DOMAIN_ATOMS

-----------------------------------------------------------------------------
(* The resolver. *)

\* What lookup returns: None, or a string.
None == [found |-> FALSE, text |-> ""]

Some(text) == [found |-> TRUE, text |-> text]

\* Python's truth value of what lookup returned: None and "" are false.
Truthy(r) == r.found /\ r.text # ""

\* parse_disambig without lines 113-114: a trailing "-" is left on the token
parse_disambig_quote_only(token) ==
    IF Contains(token, "'")
    THEN [base |-> SplitOnce(token, "'")[1], marker |-> SplitOnce(token, "'")[2], has |-> TRUE]
    ELSE [base |-> token, marker |-> <<>>, has |-> FALSE]

\* parse_disambig: (base, marker); has is FALSE where the marker is None.
parse_disambig(token) ==
    IF Contains(token, "'")
    THEN [base |-> SplitOnce(token, "'")[1], marker |-> SplitOnce(token, "'")[2], has |-> TRUE]
    ELSE IF EndsWith(token, "-")
    THEN [base |-> SubSeq(token, 1, Len(token) - 1), marker |-> <<"-">>, has |-> TRUE]
    ELSE [base |-> token, marker |-> <<>>, has |-> FALSE]

\* lines 155-160: the domain:atom form; None when it does not apply
PrefixedLookup(base, lng) ==
    IF ~Contains(base, ":") THEN None
    ELSE LET domain == SplitOnce(base, ":")[1]
             atom   == SplitOnce(base, ":")[2]
         IN  IF domain \in DOMAIN DOMAIN_LOOKUP /\ atom \in DOMAIN DOMAIN_LOOKUP[domain]
             THEN Some(DOMAIN_LOOKUP[domain][atom][lng])
             ELSE None

\* lines 163-165: the positions of doms whose table holds base; a code that is no
\* key of DOMAIN_LOOKUP makes DOMAIN_LOOKUP[domain] raise KeyError
DomainHits(base, doms) ==
    {j \in 1..Len(doms) : doms[j] \in DOMAIN DOMAIN_LOOKUP /\ base \in DOMAIN DOMAIN_LOOKUP[doms[j]]}

DomainFaults(doms) == {j \in 1..Len(doms) : doms[j] \notin DOMAIN DOMAIN_LOOKUP}

FirstOf(S) == CHOOSE j \in S : \A k \in S : j <= k

\* lines 168-183
TablesLookup(base, lng) ==
    IF base \in DOMAIN DISCOURSE_LOOKUP THEN Some(DISCOURSE_LOOKUP[base][lng])
    ELSE IF base \in DOMAIN EMOTION_LOOKUP THEN Some(EMOTION_LOOKUP[base][lng])
    ELSE IF base \in DOMAIN EXTENDED_LOOKUP THEN Some(EXTENDED_LOOKUP[base][lng])
    ELSE IF base \in DOMAIN CORE_LOOKUP THEN Some(CORE_LOOKUP[base][lng])
    ELSE None

\* whether lookup reaches the loop over the active domains (line 163)
ReachesDomains(token, lng, defs) ==
    LET base == parse_disambig(token).base
    IN  /\ base \notin DOMAIN defs
        /\ base \notin DOMAIN DISAMBIG
        /\ ~PrefixedLookup(base, lng).found

\* lookup raises KeyError: the loop meets an unknown code before a domain that holds base
LookupRaises(token, lng, doms, defs) ==
    /\ ReachesDomains(token, lng, defs)
    /\ LET base == parse_disambig(token).base
           hits == DomainHits(base, doms)
           bad  == DomainFaults(doms)
       IN  bad # {} /\ (hits = {} \/ FirstOf(bad) < FirstOf(hits))

\* lookup with the disambiguation table consulted before the definitions
lookup_disambig_first(token, lng, doms, defs) ==
    LET pd     == parse_disambig(token)
        base   == pd.base
        marker == pd.marker
        hits   == DomainHits(base, doms)
    IN  IF base \in DOMAIN DISAMBIG
        THEN IF pd.has /\ marker # <<>> /\ marker \in DOMAIN DISAMBIG[base]
             THEN Some(DISAMBIG[base][marker][lng])
             ELSE Some(DISAMBIG[base][Primary][lng])
        ELSE IF base \in DOMAIN defs THEN Some(Str(defs[base]))
        ELSE IF PrefixedLookup(base, lng).found THEN PrefixedLookup(base, lng)
        ELSE IF hits # {} THEN Some(DOMAIN_LOOKUP[doms[FirstOf(hits)]][base][lng])
        ELSE TablesLookup(base, lng)

\* LambdaParser.lookup
lookup(token, lng, doms, defs) ==
    LET pd     == parse_disambig(token)
        base   == pd.base
        marker == pd.marker
        hits   == DomainHits(base, doms)
    IN  IF base \in DOMAIN defs THEN Some(Str(defs[base]))
        ELSE IF base \in DOMAIN DISAMBIG
        THEN IF pd.has /\ marker # <<>> /\ marker \in DOMAIN DISAMBIG[base]
             THEN Some(DISAMBIG[base][marker][lng])
             ELSE Some(DISAMBIG[base][Primary][lng])
        ELSE IF PrefixedLookup(base, lng).found THEN PrefixedLookup(base, lng)
        ELSE IF hits # {} THEN Some(DOMAIN_LOOKUP[doms[FirstOf(hits)]][base][lng])
        ELSE TablesLookup(base, lng)


-----------------------------------------------------------------------------
(* The context operations. *)

InSeq(s, x) == \E j \in 1..Len(s) : s[j] = x

\* set_domain without the test of line 128: any code is activated
set_domain_unchecked(domain, doms) ==
    IF ~InSeq(doms, domain) THEN Append(doms, domain) ELSE doms

\* set_domain without the test of line 129: an active domain is appended again
set_domain_again(domain, doms) ==
    IF domain \in DOMAIN DOMAIN_LOOKUP THEN Append(doms, domain) ELSE doms

\* LambdaParser.set_domain: the new active_domains
set_domain(domain, doms) ==
    IF domain \in DOMAIN DOMAIN_LOOKUP
    THEN IF ~InSeq(doms, domain) THEN Append(doms, domain) ELSE doms
    ELSE doms

\* LambdaParser.define: the new definitions
define(key, value, defs) ==
    [k \in (DOMAIN defs) \cup {key} |-> IF k = key THEN value ELSE defs[k]]

NoDefinitions == [k \in {} |-> <<>>]

\* lines 206-210: the definitions after the pieces of a def: block, left to right
RECURSIVE ApplyDefs(_, _)
ApplyDefs(pieces, defs) ==
    IF pieces = <<>> THEN defs
    ELSE LET d == Head(pieces)
         IN  IF Contains(d, "=")
             THEN ApplyDefs(Tail(pieces),
                            define(Strip(SplitOnce(d, "=")[1], Whitespace),
                                   Strip(Strip(SplitOnce(d, "=")[2], Whitespace), {"\""}),
                                   defs))
             ELSE ApplyDefs(Tail(pieces), defs)

NsPrefix == <<"n", "s", ":">>

DefPrefix == <<"d", "e", "f", ":">>

\* lines 201-203: active_domains after the block
BlockDomains(block, doms) ==
    IF StartsWith(block, NsPrefix) THEN set_domain(SubSeq(block, 4, Len(block)), doms) ELSE doms

\* lines 204-210: definitions after the block
BlockDefinitions(block, defs) ==
    IF ~StartsWith(block, NsPrefix) /\ StartsWith(block, DefPrefix)
    THEN ApplyDefs(Split(SubSeq(block, 5, Len(block)), ","), defs)
    ELSE defs

-----------------------------------------------------------------------------
(* The scanner: the checks of one iteration of the loop of tokenize, at position p. *)

Brackets == {"(", ")", "[", "]"}

BracketsAndBraces == {"(", ")", "[", "]", "{", "}"}

Markers == {"E", "V", "S", "2", "3"}

IsLower(m, a, b) == b <= Len(m) /\ \A j \in a..b : m[j] \in LowerLetters

CharAt(m, j, c) == j <= Len(m) /\ m[j] = c

\* line 198 where a missing closing brace is taken to stand at the end of the input
BlockEndOrEof(m, p) ==
    IF m[p] = "{" THEN (IF Find(m, "}", p) = 0 THEN Len(m) ELSE Find(m, "}", p)) ELSE 0

\* line 198: the position of the closing brace of a block that opens at p, or 0
BlockEnd(m, p) == IF m[p] = "{" THEN Find(m, "}", p) ELSE 0

\* line 222: the length of the match of ([a-z]{2,3}):([a-z]{2}) at p, or 0
PrefixedLen(m, p) ==
    IF IsLower(m, p, p + 2) /\ CharAt(m, p + 3, ":") /\ IsLower(m, p + 4, p + 5) THEN 6
    ELSE IF IsLower(m, p, p + 1) /\ CharAt(m, p + 2, ":") /\ IsLower(m, p + 3, p + 4) THEN 5
    ELSE 0

\* line 229: the length of the match of ([a-z]{2})'([EVS23])|([a-z]{2})- at p, or 0
DisambigLen(m, p) ==
    IF IsLower(m, p, p + 1) /\ CharAt(m, p + 2, "'") /\ p + 3 <= Len(m) /\ m[p + 3] \in Markers
    THEN 4
    ELSE IF IsLower(m, p, p + 1) /\ CharAt(m, p + 2, "-") THEN 3
    ELSE 0

TwoChar(m, p) == SubSeq(m, p, p + 1)

\* lines 236-238
AtPair(m, p) ==
    /\ p + 1 <= Len(m)
    /\ (TwoChar(m, p) \in DOMAIN DISCOURSE_LOOKUP \/ TwoChar(m, p) \in DOMAIN EMOTION_LOOKUP)

\* line 244: i + 1 < len(msg) and msg[i:i+2].isalpha() and msg[i:i+2].islower():
\* two letters, neither of them uppercase or titlecase, at least one lowercase
Pairable(m, p) ==
    /\ p + 1 <= Len(m)
    /\ \A j \in {p, p + 1} : Lowercase(m[j]) \/ UncasedLetters(m[j])
    /\ \E j \in {p, p + 1} : Lowercase(m[j])

\* lines 244-246 with the pair resolved without the active domains
AtExtendedNoDomains(m, p, doms, defs) ==
    Pairable(m, p) /\ Truthy(lookup(TwoChar(m, p), "en", <<>>, defs))

\* lines 244-246
AtExtended(m, p, doms, defs) ==
    Pairable(m, p) /\ Truthy(lookup(TwoChar(m, p), "en", doms, defs))

\* line 252
AtSingle(m, p, doms, defs) == Truthy(lookup(<<m[p]>>, "en", doms, defs))

\* line 258
AtType(m, p) == <<m[p]>> \in DOMAIN TYPES

\* lines 265-271 with "()[]" for "()[]{}" at line 266
StopsUnknownNoBraces(m, j, doms, defs) ==
    \/ j > Len(m)
    \/ m[j] \in Whitespace
    \/ m[j] \in Brackets
    \/ Truthy(lookup(<<m[j]>>, "en", doms, defs))
    \/ <<m[j]>> \in DOMAIN TYPES

\* lines 265-271: the inner loop stops at j
StopsUnknown(m, j, doms, defs) ==
    \/ j > Len(m)
    \/ m[j] \in Whitespace
    \/ m[j] \in BracketsAndBraces
    \/ Truthy(lookup(<<m[j]>>, "en", doms, defs))
    \/ <<m[j]>> \in DOMAIN TYPES

\* lines 264-272: the value of j after the inner loop (the run is msg[i:j])
UnknownEnd(m, p, doms, defs) ==
    CHOOSE j \in (p + 1)..(Len(m) + 1) :
        /\ StopsUnknown(m, j, doms, defs)
        /\ \A k \in (p + 1)..(j - 1) : ~StopsUnknown(m, k, doms, defs)

\* The first check of the iteration that matches.
Branch(m, p, doms, defs) ==
    IF m[p] \in Whitespace THEN "space"
    ELSE IF BlockEnd(m, p) # 0 THEN "block"
    ELSE IF m[p] \in Brackets THEN "bracket"
    ELSE IF PrefixedLen(m, p) # 0 THEN "prefixed"
    ELSE IF DisambigLen(m, p) # 0 THEN "disambig"
    ELSE IF AtPair(m, p) THEN "pair"
    ELSE IF AtExtended(m, p, doms, defs) THEN "extended"
    ELSE IF AtSingle(m, p, doms, defs) THEN "single"
    ELSE IF AtType(m, p) THEN "type"
    ELSE "unknown"

\* The iteration calls lookup where lookup raises KeyError.
Faults(m, p, doms, defs) ==
    /\ Branch(m, p, doms, defs) \in {"extended", "single", "type", "unknown"}
    /\ \/ Pairable(m, p) /\ LookupRaises(TwoChar(m, p), "en", doms, defs)
       \/ /\ Branch(m, p, doms, defs) # "extended"
          /\ LookupRaises(<<m[p]>>, "en", doms, defs)
       \/ /\ Branch(m, p, doms, defs) = "unknown"
          /\ \E j \in (p + 1)..Len(m) :
                /\ j <= UnknownEnd(m, p, doms, defs)
                /\ m[j] \notin Whitespace \cup BracketsAndBraces
                /\ LookupRaises(<<m[j]>>, "en", doms, defs)


-----------------------------------------------------------------------------
(* LambdaParser.tokenize: one action for each way an iteration of the loop ends. *)

Scanning == pc = "scan" /\ i <= Len(msg)

Ctx(doms, defs) == [domains |-> doms, definitions |-> defs]

RenderVars == <<t, parts, msg_type, result, src>>

SessionVars == <<ncalls, last>>

\* tokens.append(tok); i = nxt
Emit(kind, tok, nxt) ==
    /\ tokens' = Append(tokens, tok)
    /\ starts' = Append(starts, i)
    /\ kinds' = Append(kinds, kind)
    /\ ctxAt' = Append(ctxAt, Ctx(active_domains, definitions))
    /\ i' = nxt
    /\ UNCHANGED <<msg, lang, pc, raised>>

\* KeyError leaves tokenize
Raise ==
    /\ raised' = TRUE
    /\ pc' = "raised"
    /\ UNCHANGED <<msg, lang, i, tokens, starts, kinds, ctxAt>>

\* lines 192-194
SkipWhitespace ==
    /\ Scanning
    /\ Branch(msg, i, active_domains, definitions) = "space"
    /\ i' = i + 1
    /\ UNCHANGED <<msg, lang, pc, tokens, active_domains, definitions, raised,
                   starts, kinds, ctxAt, activations>>
    /\ UNCHANGED RenderVars
    /\ UNCHANGED SessionVars

\* line 211 without the braces
BlockTokenBare(block) == block

\* line 211: the token of a block
BlockToken(block) == <<"{">> \o block \o <<"}">>

\* lines 197-213
ControlBlock ==
    /\ Scanning
    /\ Branch(msg, i, active_domains, definitions) = "block"
    /\ LET j     == BlockEnd(msg, i)
           block == SubSeq(msg, i + 1, j - 1)
       IN  /\ active_domains' = BlockDomains(block, active_domains)
           /\ definitions' = BlockDefinitions(block, definitions)
           /\ activations' = IF StartsWith(block, NsPrefix)
                             THEN Append(activations, SubSeq(block, 4, Len(block)))
                             ELSE activations
           /\ Emit("block", BlockToken(block), j + 1)
    /\ UNCHANGED RenderVars
    /\ UNCHANGED SessionVars

\* lines 216-219
Bracket ==
    /\ Scanning
    /\ Branch(msg, i, active_domains, definitions) = "bracket"
    /\ Emit("bracket", <<msg[i]>>, i + 1)
    /\ UNCHANGED <<active_domains, definitions, activations>>
    /\ UNCHANGED RenderVars
    /\ UNCHANGED SessionVars

\* lines 222-226
PrefixedAtom ==
    /\ Scanning
    /\ Branch(msg, i, active_domains, definitions) = "prefixed"
    /\ Emit("prefixed", SubSeq(msg, i, i + PrefixedLen(msg, i) - 1), i + PrefixedLen(msg, i))
    /\ UNCHANGED <<active_domains, definitions, activations>>
    /\ UNCHANGED RenderVars
    /\ UNCHANGED SessionVars

\* lines 229-233
DisambiguatedAtom ==
    /\ Scanning
    /\ Branch(msg, i, active_domains, definitions) = "disambig"
    /\ Emit("disambig", SubSeq(msg, i, i + DisambigLen(msg, i) - 1), i + DisambigLen(msg, i))
    /\ UNCHANGED <<active_domains, definitions, activations>>
    /\ UNCHANGED RenderVars
    /\ UNCHANGED SessionVars

\* lines 236-241
DiscoursePair ==
    /\ Scanning
    /\ Branch(msg, i, active_domains, definitions) = "pair"
    /\ Emit("pair", TwoChar(msg, i), i + 2)
    /\ UNCHANGED <<active_domains, definitions, activations>>
    /\ UNCHANGED RenderVars
    /\ UNCHANGED SessionVars

\* lines 244-249
ExtendedPair ==
    /\ Scanning
    /\ Branch(msg, i, active_domains, definitions) = "extended"
    /\ IF Faults(msg, i, active_domains, definitions) THEN Raise
       ELSE Emit("extended", TwoChar(msg, i), i + 2)
    /\ UNCHANGED <<active_domains, definitions, activations>>
    /\ UNCHANGED RenderVars
    /\ UNCHANGED SessionVars

\* lines 252-255
SingleChar ==
    /\ Scanning
    /\ Branch(msg, i, active_domains, definitions) = "single"
    /\ IF Faults(msg, i, active_domains, definitions) THEN Raise
       ELSE Emit("single", <<msg[i]>>, i + 1)
    /\ UNCHANGED <<active_domains, definitions, activations>>
    /\ UNCHANGED RenderVars
    /\ UNCHANGED SessionVars

\* lines 258-261
TypeMarker ==
    /\ Scanning
    /\ Branch(msg, i, active_domains, definitions) = "type"
    /\ IF Faults(msg, i, active_domains, definitions) THEN Raise
       ELSE Emit("type", <<msg[i]>>, i + 1)
    /\ UNCHANGED <<active_domains, definitions, activations>>
    /\ UNCHANGED RenderVars
    /\ UNCHANGED SessionVars

\* lines 264-274
UnknownRun ==
    /\ Scanning
    /\ Branch(msg, i, active_domains, definitions) = "unknown"
    /\ IF Faults(msg, i, active_domains, definitions) THEN Raise
       ELSE LET j == UnknownEnd(msg, i, active_domains, definitions)
            IN  Emit("unknown", SubSeq(msg, i, j - 1), j)
    /\ UNCHANGED <<active_domains, definitions, activations>>
    /\ UNCHANGED RenderVars
    /\ UNCHANGED SessionVars

Tokenize ==
    \/ SkipWhitespace
    \/ ControlBlock
    \/ Bracket
    \/ PrefixedAtom
    \/ DisambiguatedAtom
    \/ DiscoursePair
    \/ ExtendedPair
    \/ SingleChar
    \/ TypeMarker
    \/ UnknownRun

ScanVars ==
    <<msg, lang, i, tokens, active_domains, definitions, starts, kinds, ctxAt, activations>>

-----------------------------------------------------------------------------
(* translate_to_english and translate_to_chinese: the loop over the tokens. *)

\* sep.join(ps)
RECURSIVE Join(_, _)
Join(ps, sep) ==
    IF ps = <<>> THEN ""
    ELSE IF Len(ps) = 1 THEN ps[1]
    ELSE ps[1] \o sep \o Join(Tail(ps), sep)

Separator(lng) == IF lng = "en" THEN " " ELSE ""

\* line 292: the token is skipped as a block
IsBlockToken(tok) == StartsWith(tok, <<"{">>) /\ EndsWith(tok, "}")

\* line 295
IsTypeToken(tok) == tok \in DOMAIN TYPES

Rendering == pc = "render" /\ t <= Len(tokens)

\* line 282 returns; lines 284-288
TokensReturned ==
    /\ pc = "scan" /\ i > Len(msg) /\ lang # ""
    /\ IF tokens = <<>>
       THEN pc' = "done" /\ result' = ""
       ELSE pc' = "render" /\ result' = result
    /\ UNCHANGED <<raised, t, parts, msg_type, src>>
    /\ UNCHANGED ScanVars
    /\ UNCHANGED SessionVars

NextToken ==
    /\ t' = t + 1
    /\ UNCHANGED <<pc, raised, result>>
    /\ UNCHANGED ScanVars
    /\ UNCHANGED SessionVars

\* lines 292-293
RenderSkipBlock ==
    /\ Rendering
    /\ IsBlockToken(tokens[t])
    /\ UNCHANGED <<parts, msg_type, src>>
    /\ NextToken

\* lines 295-296
RenderType ==
    /\ Rendering
    /\ ~IsBlockToken(tokens[t])
    /\ IsTypeToken(tokens[t])
    /\ msg_type' = TYPES[tokens[t]][lang]
    /\ UNCHANGED <<parts, src>>
    /\ NextToken

\* lines 298-304: what a token that is neither a block nor a type adds to parts
PartOf(tok, lng, doms, defs) ==
    IF Truthy(lookup(tok, lng, doms, defs)) THEN lookup(tok, lng, doms, defs).text
    ELSE IF IsSubstring(tok, <<"(", ")", "[", "]">>) THEN Str(tok)
    ELSE "[" \o Str(tok) \o "]"

\* lines 298-304
RenderBody ==
    /\ Rendering
    /\ ~IsBlockToken(tokens[t])
    /\ ~IsTypeToken(tokens[t])
    /\ IF LookupRaises(tokens[t], lang, active_domains, definitions)
       THEN /\ raised' = TRUE
            /\ pc' = "raised"
            /\ UNCHANGED <<t, parts, src, result>>
       ELSE /\ parts' = Append(parts, PartOf(tokens[t], lang, active_domains, definitions))
            /\ src' = Append(src, t)
            /\ t' = t + 1
            /\ UNCHANGED <<pc, raised, result>>
    /\ UNCHANGED msg_type
    /\ UNCHANGED ScanVars
    /\ UNCHANGED SessionVars

\* lines 306-309
Compose(ps, mtype, lng) ==
    IF mtype # "" THEN "(" \o mtype \o ") " \o Join(ps, Separator(lng))
    ELSE Join(ps, Separator(lng))

RenderJoin ==
    /\ pc = "render" /\ t > Len(tokens)
    /\ result' = Compose(parts, msg_type, lang)
    /\ pc' = "done"
    /\ UNCHANGED <<raised, t, parts, msg_type, src>>
    /\ UNCHANGED ScanVars
    /\ UNCHANGED SessionVars

Render ==
    \/ TokensReturned
    \/ RenderSkipBlock
    \/ RenderType
    \/ RenderBody
    \/ RenderJoin


-----------------------------------------------------------------------------
(* The inputs. *)

\* The strings made of at most n pieces of F.
RECURSIVE Strings(_, _)
Strings(F, n) ==
    IF n = 0 THEN {<<>>}
    ELSE LET shorter == Strings(F, n - 1)
         IN  shorter \cup {s \o f : s \in shorter, f \in F}

NsCd == <<"{", "n", "s", ":", "c", "d", "}">>

NsSc == <<"{", "n", "s", ":", "s", "c", "}">>

\* a code that names no domain
NsZz == <<"{", "n", "s", ":", "z", "z", "}">>

\* {def:bg=v, fe="c"}
DefBgFe ==
    <<"{", "d", "e", "f", ":", "b", "g", "=", "v", ",", " ", "f", "e", "=", "\"", "c", "\"", "}">>

\* {def:!=}
DefBang == <<"{", "d", "e", "f", ":", "!", "=", "}">>

\* {def:{=x}
DefBrace == <<"{", "d", "e", "f", ":", "{", "=", "x", "}">>

\* Pieces for the scanner: whitespace, braces, a bracket, two type markers, a
\* character that resolves and one that does not.
ScanPieces ==
    { <<" ">>, <<"{">>, <<"}">>, <<"(">>, <<"!">>, <<"?">>, <<"I">>, <<"x">> }

\* Pieces that change the context, and keys whose meaning the context decides.
ContextPieces ==
    { NsCd, NsSc, DefBgFe, <<"b", "g">>, <<"f", "n">>, <<"f", "e">>, <<"!">>, <<" ">> }

MarkerSuffixes ==
    { <<>>, <<"'", "E">>, <<"'", "V">>, <<"'", "S">>, <<"'", "2">>, <<"'", "3">>, <<"-">> }

\* The multi-character forms of checks 4 to 6: every disambiguation key, bare and
\* with every marker; prefixed atoms; discourse and emotion pairs.
DisambigForms == { k \o m : k \in DOMAIN DISAMBIG, m \in MarkerSuffixes }

OtherForms ==
    { <<"c", "d", ":", "f", "n">>, <<"z", "z", ":", "f", "n">>, <<"a", "b", "c", ":", "f", "n">>,
      <<">", ">">>, <<"^", "^">> }

\* Each form alone, after other text and before other text.
FormInputs ==
    { a \o f \o b :
        a \in {<<>>, <<"!", "I">>},
        f \in DisambigForms \cup OtherForms,
        b \in {<<>>, <<" ", "I">>} }
    \cup { <<"x">> \o f \o b : f \in DisambigForms, b \in {<<>>, <<" ", "I">>} }

\* A block naming no domain, a definition that empties a type marker, and a
\* definition of the opening brace.
OddInputs ==
    { b \o k : b \in {NsZz, NsZz \o NsCd, DefBang, DefBang \o NsCd, DefBrace},
               k \in {<<"b", "g">>, <<"!">>, <<"x", "!">>, <<"!", "f", "e">>, <<"{", "I">>} }

\* Whitespace other than space, tab and newline; letters outside a-z at the
\* two-letter check; atoms of the categories time, quantifiers and aspect.
WideInputs ==
    { <<"\r">>,
      <<"x", "\r", "x">>,
      <<"I", "", "U">>,
      <<"I", "\\u3000", "U">>,
      <<"{", "d", "e", "f", ":", " ", "x", "\r", "=", "\r", "v", "}", "x">>,
      <<"{", "d", "e", "f", ":", "", "b", "g", " ", "=", "", "v", "", "}", "b", "g">>,
      <<"{", "d", "e", "f", ":", "é", "f", "=", "x", "}", "é", "f">>,
      <<"{", "d", "e", "f", ":", "f", "é", "=", "x", "}", "f", "é">>,
      <<"é", "f">>,
      <<"{", "d", "e", "f", ":", "É", "f", "=", "x", "}", "É", "f">>,
      <<"{", "d", "e", "f", ":", "f", "\\u05d0", "=", "x", "}", "f", "\\u05d0">>,
      <<"{", "d", "e", "f", ":", "\\u05d0", "\\u05d0", "=", "x", "}", "\\u05d0", "\\u05d0">>,
      <<"{", "d", "e", "f", ":", "\\u044f", "\\u044f", "=", "x", "}", "\\u044f", "\\u044f", " ", "x">>,
      <<"I", "p", "*", "%">>,
      <<"x", "p">>,
      <<"{", "n", "s", ":", "s", "c", "}", "x", "p", "*">>,
      <<"{", "d", "e", "f", ":", "\\u0434", "f", "=", "x", "}", "\\u0434", "f">>,
      <<"{", "d", "e", "f", ":", "\\u044f", "\\u0434", "=", "x", "}", "\\u044f", "\\u0434">>,
      <<"{", "d", "e", "f", ":", "f", "\\u3042", "=", "x", "}", "f", "\\u3042">>,
      <<"{", "d", "e", "f", ":", "\\u03b1", "\\u02b0", "=", "x", "}", "\\u03b1", "\\u02b0">>,
      <<"{", "d", "e", "f", ":", "\\u0101", "\\uac00", "=", "x", "}", "\\u0101", "\\uac00">>,
      <<"{", "d", "e", "f", ":", "\\U0001d41a", "f", "=", "x", "}", "\\U0001d41a", "f">>,
      <<"{", "d", "e", "f", ":", "\\u042f", "f", "=", "x", "}", "\\u042f", "f">>,
      <<"{", "d", "e", "f", ":", "\\u01c5", "f", "=", "x", "}", "\\u01c5", "f">>,
      <<"{", "d", "e", "f", ":", "\\u2170", "f", "=", "x", "}", "\\u2170", "f">>,
      <<"{", "d", "e", "f", ":", "\\U00020000", "f", "=", "x", "}", "\\U00020000", "f", " ", "I">> }

\* {def:bg=} and {def:fn=}: a domain key defined as the empty string
DefBgEmpty == <<"{", "d", "e", "f", ":", "b", "g", "=", "}">>

DefFnEmpty == <<"{", "d", "e", "f", ":", "f", "n", "=", "}">>

\* A domain key with an empty definition made before or after the key, with and
\* without the namespace block; a domain key inside an unknown run or a prefixed
\* atom.
ShadowInputs ==
    { NsCd \o <<"b", "g">> \o DefBgEmpty, NsCd \o DefBgEmpty \o <<"b", "g">>,
      DefBgEmpty \o <<"b", "g">>, DefBgEmpty \o NsCd \o <<"!", "b", "g">>,
      NsSc \o NsCd \o DefFnEmpty \o <<"f", "n">>, NsSc \o DefFnEmpty \o <<"f", "n">>,
      NsCd \o <<"f", "n">> \o DefFnEmpty \o <<" ", "f", "n">>,
      NsCd \o <<"x", "b", "g">>, NsCd \o <<"x", "b", "g", " ", "b", "g">>,
      NsCd \o <<"x", "f", "n">>, NsCd \o <<"c", "d", ":", "b", "g">>,
      NsCd \o <<"f", "n", "b", "g">>, NsCd \o DefBgFe \o <<"x", "b", "g">> }

Inputs ==
    Strings(ScanPieces, MaxFrags) \cup Strings(ContextPieces, MaxFrags)
        \cup FormInputs \cup OddInputs \cup WideInputs \cup ShadowInputs

-----------------------------------------------------------------------------
(* One translation call: translate_to_english(msg) or translate_to_chinese(msg),
   each on a parser of its own (lines 281, 314). *)

NoCall == [tok |-> <<>>, lang |-> "", res |-> None, called |-> FALSE]

Fresh ==
    /\ i = 1
    /\ tokens = <<>>
    /\ active_domains = <<>>
    /\ definitions = NoDefinitions
    /\ raised = FALSE
    /\ t = 1
    /\ parts = <<>>
    /\ msg_type = ""
    /\ result = ""
    /\ ncalls = 0
    /\ last = NoCall
    /\ starts = <<>>
    /\ kinds = <<>>
    /\ ctxAt = <<>>
    /\ src = <<>>
    /\ activations = <<>>

Init ==
    /\ msg \in Inputs
    /\ lang \in {"en", "zh"}
    /\ pc = "scan"
    /\ Fresh

Next == Tokenize \/ Render

Spec == Init /\ [][Next]_vars


-----------------------------------------------------------------------------
(* A host session on one parser (lines 445-475, 543-551): the host calls
   set_domain, clear_domains, define, lookup and tokenize, one after the other. *)

DomainArgs == { <<"c", "d">>, <<"s", "c">>, <<"z", "z">> }

DefineArgs ==
    { <<<<"f", "e">>, <<"c", "u", "s", "t", "o", "m">>>>,
      <<<<"b", "g">>, <<"c", "u", "s", "t", "o", "m">>>>,
      <<<<"b", "g">>, <<>>>> }

LookupArgs ==
    { <<"f", "e">>, <<"f", "e", "'", "E">>, <<"f", "e", "'", "V">>, <<"f", "e", "'">>,
      <<"f", "e", "'">> \o Primary, <<"l", "o", "-">>, <<"d", "e", "-">>,
      <<"c", "d", ":", "f", "n">>, <<"c", "d", ":", "z", "z">>, <<"z", "z", ":", "f", "n">>,
      <<"f", "n">>, <<"b", "g">>, <<"c", "o">>, <<"!">>, <<">", ">">>, <<"^", "^">>,
      <<"z", "z">>, <<"p">>, <<"*">>, <<"%">>, <<>> }

\* {ns:cd}!If/bg is the message of line 489; the others pass through every check
\* of the scanner.
SessionInputs ==
    { <<"{", "n", "s", ":", "c", "d", "}", "!", "I", "f", "/", "b", "g">>,
      <<"{", "n", "s", ":", "z", "z", "}", "(", "x", ")", " ", "^", "^", "c", "d", ":", "f", "n", " ", "l", "o", "-", " ", ">", ">">>,
      <<"{", "d", "e", "f", ":", "!", "=", "}", "!">>,
      <<"{", "n", "s", ":", "s", "c", "}", "{", "n", "s", ":", "c", "d", "}", "{", "n", "s", ":", "s", "c", "}", "f", "n">>,
      <<"f", "e", "'", "E", "{">> }

Calling == pc = "api" /\ ncalls < MaxCalls

TokenizeVars == <<msg, i, tokens, starts, kinds, ctxAt>>

\* parser.set_domain(d)
SetDomain(d) ==
    /\ Calling
    /\ active_domains' = set_domain(d, active_domains)
    /\ activations' = Append(activations, d)
    /\ ncalls' = ncalls + 1
    /\ last' = NoCall
    /\ UNCHANGED <<lang, pc, definitions, raised>>
    /\ UNCHANGED TokenizeVars
    /\ UNCHANGED RenderVars

\* parser.clear_domains()
ClearDomains ==
    /\ Calling
    /\ active_domains' = <<>>
    /\ activations' = <<>>
    /\ ncalls' = ncalls + 1
    /\ last' = NoCall
    /\ UNCHANGED <<lang, pc, definitions, raised>>
    /\ UNCHANGED TokenizeVars
    /\ UNCHANGED RenderVars

\* parser.define(k, v)
Define(k, v) ==
    /\ Calling
    /\ definitions' = define(k, v, definitions)
    /\ ncalls' = ncalls + 1
    /\ last' = NoCall
    /\ UNCHANGED <<lang, pc, active_domains, activations, raised>>
    /\ UNCHANGED TokenizeVars
    /\ UNCHANGED RenderVars

\* parser.lookup(tok, lng)
LookupCall(tok, lng) ==
    /\ Calling
    /\ ncalls' = ncalls + 1
    /\ IF LookupRaises(tok, lng, active_domains, definitions)
       THEN raised' = TRUE /\ pc' = "raised" /\ last' = NoCall
       ELSE /\ last' = [tok |-> tok, lang |-> lng, called |-> TRUE,
                        res |-> lookup(tok, lng, active_domains, definitions)]
            /\ UNCHANGED <<pc, raised>>
    /\ UNCHANGED <<lang, active_domains, definitions, activations>>
    /\ UNCHANGED TokenizeVars
    /\ UNCHANGED RenderVars

\* parser.tokenize(m) is entered
TokenizeCall(m) ==
    /\ Calling
    /\ msg' = m
    /\ i' = 1
    /\ tokens' = <<>>
    /\ starts' = <<>>
    /\ kinds' = <<>>
    /\ ctxAt' = <<>>
    /\ pc' = "scan"
    /\ ncalls' = ncalls + 1
    /\ last' = NoCall
    /\ UNCHANGED <<lang, active_domains, definitions, activations, raised>>
    /\ UNCHANGED RenderVars

\* parser.tokenize(m) returns: the locals of the call are gone
TokenizeReturn ==
    /\ pc = "scan" /\ i > Len(msg) /\ lang = ""
    /\ pc' = "api"
    /\ msg' = <<>>
    /\ i' = 1
    /\ tokens' = <<>>
    /\ starts' = <<>>
    /\ kinds' = <<>>
    /\ ctxAt' = <<>>
    /\ UNCHANGED <<lang, active_domains, definitions, activations, raised>>
    /\ UNCHANGED RenderVars
    /\ UNCHANGED SessionVars

Session ==
    \/ \E d \in DomainArgs : SetDomain(d)
    \/ ClearDomains
    \/ \E kv \in DefineArgs : Define(kv[1], kv[2])
    \/ \E tok \in LookupArgs, lng \in {"en", "zh"} : LookupCall(tok, lng)
    \/ \E m \in SessionInputs : TokenizeCall(m)
    \/ TokenizeReturn

InitSession ==
    /\ msg = <<>>
    /\ lang = ""
    /\ pc = "api"
    /\ Fresh

NextSession == Session \/ Tokenize

SpecSession == InitSession /\ [][NextSession]_vars


-----------------------------------------------------------------------------
(* The claims. *)

\* C1: tokenize returns without raising, for every input and context: no lookup
\* it makes is undefined, every iteration of the loop moves the position forward
\* by at least one character and never past the end, and each token emitted has
\* used up at least one character, so the token list is no longer than the input.
C1_Totality ==
    /\ [](/\ ~raised
          /\ pc # "raised"
          /\ i \in 1..(Len(msg) + 1)
          /\ Len(tokens) < i)
    /\ [][Scanning => (i' > i /\ pc' = "scan")]_vars

\* tokenize has returned tokens for an input with an unclosed brace and a bracket
C1_Witness ==
    /\ pc = "scan" /\ i > Len(msg)
    /\ Contains(msg, "{") /\ ~Contains(msg, "}") /\ Contains(msg, "(")
    /\ Len(tokens) >= 2

\* the end of token k in msg
TokenEnd(k) == starts[k] + Len(tokens[k]) - 1

InToken(p) == \E k \in 1..Len(tokens) : starts[k] <= p /\ p <= TokenEnd(k)

\* C2: the tokens are non-empty substrings of the input, in order and without
\* overlap, and every character scanned so far lies in a token or is a skipped
\* whitespace character: tokens and skipped whitespace rebuild the input.
C2_TokenCoverage ==
    /\ Len(starts) = Len(tokens)
    /\ \A k \in 1..Len(tokens) :
          /\ tokens[k] # <<>>
          /\ starts[k] >= 1
          /\ TokenEnd(k) < i
          /\ tokens[k] = SubSeq(msg, starts[k], TokenEnd(k))
          /\ k < Len(tokens) => TokenEnd(k) < starts[k + 1]
    /\ \A p \in 1..(i - 1) : InToken(p) \/ msg[p] \in Whitespace
    /\ (pc # "scan" /\ ~raised) => i = Len(msg) + 1

\* a finished scan that skipped whitespace and emitted a control block and more
C2_Witness ==
    /\ pc = "done"
    /\ \E k \in 1..Len(tokens) : kinds[k] = "block"
    /\ \E p \in 1..Len(msg) : msg[p] \in Whitespace /\ ~InToken(p)
    /\ Len(tokens) >= 3


\* a character the unknown run stops before: whitespace, a bracket or brace, a
\* character that resolves on its own, a type marker
StopChar(p, c) ==
    \/ msg[p] \in Whitespace
    \/ msg[p] \in {"(", ")", "[", "]", "{", "}"}
    \/ Truthy(lookup(<<msg[p]>>, "en", c.domains, c.definitions))
    \/ <<msg[p]>> \in DOMAIN TYPES

\* whitespace, a brace, or one of the checks 3 to 8 matches at p
KnownAt(p, c) ==
    \/ msg[p] \in Whitespace
    \/ msg[p] \in {"{", "}"}
    \/ Branch(msg, p, c.domains, c.definitions) \in
          {"bracket", "prefixed", "disambig", "pair", "extended", "single", "type"}

\* C10 as claimed: an unknown token is not empty and ends exactly before the first
\* following character at which whitespace, a brace or one of the checks 3 to 8
\* matches, so none of them matches inside it after its first character.
C10_UnknownRunStopsAtAnyCheck ==
    \A k \in 1..Len(tokens) :
        kinds[k] = "unknown" =>
            /\ tokens[k] # <<>>
            /\ \A p \in (starts[k] + 1)..TokenEnd(k) : ~KnownAt(p, ctxAt[k])
            /\ TokenEnd(k) < Len(msg) => KnownAt(TokenEnd(k) + 1, ctxAt[k])

\* C10 as amended: an unknown token is not empty and ends exactly before the first
\* following character that is whitespace, a bracket, a brace, or a character that
\* resolves on its own or is a type marker (or at the end of the input); the
\* multi-character checks 4 to 7 are not tried inside the run.
C10_UnknownRunStopsAtSingleChars ==
    \A k \in 1..Len(tokens) :
        kinds[k] = "unknown" =>
            /\ tokens[k] # <<>>
            /\ \A p \in (starts[k] + 1)..TokenEnd(k) : ~StopChar(p, ctxAt[k])
            /\ TokenEnd(k) < Len(msg) => StopChar(TokenEnd(k) + 1, ctxAt[k])

\* an unknown token that holds a disambiguated atom after its first character and
\* stops before a later character
C10_Witness ==
    \E k \in 1..Len(tokens) :
        /\ kinds[k] = "unknown"
        /\ Len(tokens[k]) >= 4
        /\ DisambigLen(msg, starts[k] + 1) # 0
        /\ TokenEnd(k) < Len(msg)

\* the scanner stands at an opening brace that no closing brace follows
AtUnclosedBrace == Scanning /\ msg[i] = "{" /\ Find(msg, "}", i) = 0

ContextKept == active_domains' = active_domains /\ definitions' = definitions

\* C7 as claimed: at an opening brace that no closing brace follows, the scanner
\* does not raise, keeps the context, and emits one unknown token from the brace to
\* the end of the input.
C7_UnclosedBraceRunsToEnd ==
    [][AtUnclosedBrace =>
          /\ ~raised'
          /\ ContextKept
          /\ tokens' = Append(tokens, SubSeq(msg, i, Len(msg)))
          /\ kinds' = Append(kinds, "unknown")]_vars

\* C7 as amended: at an opening brace that no closing brace follows, the scanner
\* does not raise, keeps the context, and emits one token that starts at the brace.
\* Where the brace itself resolves (it has a local definition) the token is the
\* brace; otherwise it is an unknown token that ends before the first following
\* whitespace, bracket, brace, resolving character or type marker, and reaches the
\* end of the input only when none follows.
C7_UnclosedBraceIsUnknownRun ==
    [][AtUnclosedBrace =>
          /\ ~raised'
          /\ ContextKept
          /\ i' > i
          /\ tokens' = Append(tokens, SubSeq(msg, i, i' - 1))
          /\ IF Truthy(lookup(<<"{">>, "en", active_domains, definitions))
             THEN i' = i + 1 /\ kinds' = Append(kinds, "single")
             ELSE /\ kinds' = Append(kinds, "unknown")
                  /\ \A p \in (i + 1)..(i' - 1) :
                        ~StopChar(p, Ctx(active_domains, definitions))
                  /\ i' <= Len(msg) => StopChar(i', Ctx(active_domains, definitions))]_vars

\* an unknown token that starts at an unclosed brace and stops short of the end
C7_Witness ==
    \E k \in 1..Len(tokens) :
        /\ kinds[k] = "unknown"
        /\ tokens[k][1] = "{"
        /\ Len(tokens[k]) >= 2
        /\ TokenEnd(k) < Len(msg)
        /\ msg[TokenEnd(k) + 1] \notin Whitespace


\* the codes of s that name a domain
KnownCodes(s) == SelectSeq(s, LAMBDA d : d \in DOMAIN DOMAIN_LOOKUP)

\* s with every repetition of an earlier element removed
RECURSIVE FirstOccurrences(_)
FirstOccurrences(s) ==
    IF s = <<>> THEN <<>>
    ELSE LET front == FirstOccurrences(SubSeq(s, 1, Len(s) - 1))
         IN  IF InSeq(front, s[Len(s)]) THEN front ELSE Append(front, s[Len(s)])

\* C8: after any sequence of activations (set_domain calls, {ns:...} blocks)
\* active_domains has no duplicates and lists the known domains asked for in the
\* order each was first activated; so activating an active domain changes nothing.
C8_IdempotentOrderedActivation ==
    /\ \A a, b \in 1..Len(active_domains) : active_domains[a] = active_domains[b] => a = b
    /\ active_domains = FirstOccurrences(KnownCodes(activations))

\* one domain activated, then another, then the first again
C8_Witness ==
    /\ Len(activations) = 3
    /\ activations[1] = activations[3]
    /\ activations[1] # activations[2]
    /\ Len(active_domains) = 2

\* the first result of a list of results that is not None, or None
RECURSIVE FirstFound(_)
FirstFound(rs) ==
    IF rs = <<>> THEN None
    ELSE IF Head(rs).found THEN Head(rs)
    ELSE FirstFound(Tail(rs))

In(table, key, lng) == IF key \in DOMAIN table THEN Some(table[key][lng]) ELSE None

\* the steps of the precedence chain for a token, in order
Chain(tok, lng) ==
    LET base   == parse_disambig(tok).base
        marker == parse_disambig(tok).marker
        inDomain(d) == IF d \in DOMAIN DOMAIN_LOOKUP THEN In(DOMAIN_LOOKUP[d], base, lng) ELSE None
    IN  << IF base \in DOMAIN definitions THEN Some(Str(definitions[base])) ELSE None,
           IF base \in DOMAIN DISAMBIG
              THEN IF marker # <<>> /\ marker \in DOMAIN DISAMBIG[base]
                   THEN Some(DISAMBIG[base][marker][lng])
                   ELSE Some(DISAMBIG[base][Primary][lng])
              ELSE None,
           IF Contains(base, ":")
              THEN LET d == SplitOnce(base, ":")[1]
                       a == SplitOnce(base, ":")[2]
                   IN  IF d \in DOMAIN DOMAIN_LOOKUP THEN In(DOMAIN_LOOKUP[d], a, lng) ELSE None
              ELSE None,
           FirstFound([n \in 1..Len(active_domains) |-> inDomain(active_domains[n])]),
           In(DISCOURSE_ATOMS, base, lng),
           In(EMOTION_ATOMS, base, lng),
           In(EXTENDED_ATOMS, base, lng),
           In(CORE_LOOKUP, base, lng) >>

Fe == <<"f", "e">>

Custom == <<"c", "u", "s", "t", "o", "m">>

\* C3: lookup returns what the first matching step of the chain gives: a local
\* definition (the same in both languages), the disambiguation table, a
\* domain:atom prefix, the active domains in activation order, then discourse,
\* emotion, extended, core; None where no step matches.  With cd active and fe
\* defined as custom, fe is custom in both languages.
C3_LookupPrecedence ==
    last.called =>
        /\ last.res = FirstFound(Chain(last.tok, last.lang))
        /\ (/\ last.tok = Fe
            /\ InSeq(active_domains, <<"c", "d">>)
            /\ Fe \in DOMAIN definitions
            /\ definitions[Fe] = Custom) => last.res = Some("custom")

\* fe looked up in Chinese with cd active and fe defined as custom
C3_Witness ==
    /\ last.called
    /\ last.tok = Fe
    /\ last.lang = "zh"
    /\ InSeq(active_domains, <<"c", "d">>)
    /\ Fe \in DOMAIN definitions
    /\ last.res = Some("custom")


\* the marker that follows the two characters at p: 'M with M one of E V S 2 3, or -
MarkerAt(p) ==
    IF p + 3 <= Len(msg) /\ msg[p + 2] = "'" /\ msg[p + 3] \in {"E", "V", "S", "2", "3"}
    THEN <<"'", msg[p + 3]>>
    ELSE IF p + 2 <= Len(msg) /\ msg[p + 2] = "-" THEN <<"-">>
    ELSE <<>>

\* a disambiguation key, bare or with a marker: the key and the marker of the token
KeyOf(tok) == SubSeq(tok, 1, 2)

MarkOf(tok) == IF Len(tok) = 4 THEN <<tok[4]>> ELSE IF Len(tok) = 3 THEN <<"-">> ELSE <<>>

IsDisambigToken(tok) ==
    /\ Len(tok) \in 2..4
    /\ KeyOf(tok) \in DOMAIN DISAMBIG
    /\ \/ Len(tok) = 2
       \/ Len(tok) = 3 /\ tok[3] = "-"
       \/ Len(tok) = 4 /\ tok[3] = "'" /\ tok[4] \in {"E", "V", "S", "2", "3"}

\* the alternate where the marker is listed for the key, the primary otherwise
Meaning(k, mark, lng) ==
    IF mark # <<>> /\ mark \in DOMAIN DISAMBIG[k] THEN DISAMBIG[k][mark][lng]
    ELSE DISAMBIG[k][Primary][lng]

\* C4: where the scan stands at a disambiguation key directly followed by a marker,
\* key and marker are emitted as one token; and a token that is a disambiguation
\* key without local definition, bare or with a marker, is rendered as the
\* alternate where the marker is listed for the key and as the primary otherwise.
C4_DisambiguationEndToEnd ==
    /\ [][(/\ Scanning
           /\ i + 1 <= Len(msg)
           /\ TwoChar(msg, i) \in DOMAIN DISAMBIG
           /\ MarkerAt(i) # <<>>)
          => /\ tokens' = Append(tokens, TwoChar(msg, i) \o MarkerAt(i))
             /\ i' = i + 2 + Len(MarkerAt(i))]_vars
    /\ [](\A n \in 1..Len(parts) :
            (/\ IsDisambigToken(tokens[src[n]])
             /\ KeyOf(tokens[src[n]]) \notin DOMAIN definitions)
            => parts[n] = Meaning(KeyOf(tokens[src[n]]), MarkOf(tokens[src[n]]), lang))

\* !Ide'E rendered in English (line 491)
C4_Witness ==
    /\ pc = "done"
    /\ lang = "en"
    /\ msg = <<"!", "I", "d", "e", "'", "E">>
    /\ tokens = << <<"!">>, <<"I">>, <<"d", "e", "'", "E">> >>
    /\ result = "(assert) I death"

\* the two-lowercase-letter keys of domain d that no global table knows
LocalKeys(d) ==
    { k \in DOMAIN DOMAIN_LOOKUP[d] :
        /\ Len(k) = 2 /\ k[1] \in LowerLetters /\ k[2] \in LowerLetters
        /\ k \notin DOMAIN DISAMBIG
        /\ k \notin DOMAIN DISCOURSE_ATOMS
        /\ k \notin DOMAIN EMOTION_ATOMS
        /\ k \notin DOMAIN EXTENDED_ATOMS
        /\ k \notin DOMAIN CORE_LOOKUP }

NsBlock(d) == <<"{", "n", "s", ":">> \o d \o <<"}">>

\* the scan has passed a {ns:d} block among its first n tokens
PassedBy(d, n) == \E b \in 1..n : tokens[b] = NsBlock(d)

Passed(d) == PassedBy(d, Len(tokens))

\* no check before the two-letter pair check matches at position p
NoEarlierCheckAt(p) ==
    /\ PrefixedLen(msg, p) = 0
    /\ DisambigLen(msg, p) = 0
    /\ ~AtPair(msg, p)

\* no check before the two-letter pair check matches at i
NoEarlierCheck == NoEarlierCheckAt(i)

\* the position in active_domains of the first domain that holds k, 0 if none does
FirstHolder(k) ==
    LET holders == {a \in 1..Len(active_domains) : k \in DOMAIN DOMAIN_LOOKUP[active_domains[a]]}
    IN  IF holders = {} THEN 0 ELSE CHOOSE a \in holders : \A b \in holders : a <= b

\* the two-letter pair check emits k in this step
PairEmits(k) == tokens' = Append(tokens, k) /\ kinds' = Append(kinds, "extended")

\* the scan stands at the two characters k and no earlier check matches
StandsAt(k) == Scanning /\ i + 1 <= Len(msg) /\ TwoChar(msg, i) = k /\ NoEarlierCheck

\* C5 as claimed: once the scan has passed {ns:d}, d is active for the rest of the
\* call; a later occurrence of a local key k of d, where no earlier check matches,
\* is emitted as one two-character token and is rendered as d's meaning; without
\* the block the pair check does not emit the two characters as that token.
C5_NamespaceActivation ==
    /\ [](\A d \in DOMAIN DOMAIN_LOOKUP : Passed(d) => InSeq(active_domains, d))
    /\ [][\A d \in DOMAIN DOMAIN_LOOKUP : \A k \in LocalKeys(d) :
            StandsAt(k) => IF Passed(d) THEN PairEmits(k) ELSE ~PairEmits(k)]_vars
    /\ [](\A d \in DOMAIN DOMAIN_LOOKUP : \A k \in LocalKeys(d) : \A n \in 1..Len(parts) :
            (tokens[src[n]] = k /\ PassedBy(d, src[n]))
            => parts[n] = DOMAIN_LOOKUP[d][k][lang])

\* k has a local definition that is not the empty string
Defined(k) == k \in DOMAIN definitions /\ definitions[k] # <<>>

\* the two characters at position p are k, after a {ns:d} block, and no check
\* before the two-letter pair check matches there
OccursAfter(d, k, p) ==
    /\ p + 1 <= Len(msg)
    /\ TwoChar(msg, p) = k
    /\ \E b \in 1..Len(tokens) : tokens[b] = NsBlock(d) /\ TokenEnd(b) < p
    /\ NoEarlierCheckAt(p)

\* k had an empty local definition when token n was emitted
EmptyDefinitionAt(k, n) ==
    k \in DOMAIN ctxAt[n].definitions /\ ctxAt[n].definitions[k] = <<>>

\* C5 as amended: once the scan has passed {ns:d}, d is active for the rest of the
\* call.  A later occurrence of a local key k of d, where no earlier check matches,
\* either lies inside a token that began before it (an unknown run, as xbg, a
\* prefixed atom, a block) and is then part of that token, or is where a token
\* starts; there it is emitted by the two-letter pair check as the token k exactly
\* when k has no empty local definition at that moment.  A token k after the block
\* is rendered in the context at the end of the scan: as k's local definition
\* where that is not empty, as [k] where k's local definition is empty, otherwise
\* as the meaning of the first activated domain that holds k, which is d's exactly
\* when no domain activated before d holds k.  Without the block the pair check
\* emits k only where a non-empty local definition resolves it or, k having no
\* local definition, another active domain holds it.
C5_NamespaceActivationByPrecedence ==
    /\ [](\A d \in DOMAIN DOMAIN_LOOKUP : Passed(d) => InSeq(active_domains, d))
    /\ [](\A d \in DOMAIN DOMAIN_LOOKUP : \A k \in LocalKeys(d) : \A p \in 1..(i - 1) :
            OccursAfter(d, k, p) =>
                \/ \E n \in 1..Len(tokens) :
                      starts[n] < p /\ p <= TokenEnd(n)
                \/ \E n \in 1..Len(tokens) :
                      /\ starts[n] = p
                      /\ IF EmptyDefinitionAt(k, n)
                         THEN kinds[n] # "extended"
                         ELSE tokens[n] = k /\ kinds[n] = "extended")
    /\ [][\A d \in DOMAIN DOMAIN_LOOKUP : \A k \in LocalKeys(d) :
            StandsAt(k) =>
                IF Passed(d)
                THEN PairEmits(k) <=> (k \notin DOMAIN definitions \/ Defined(k))
                ELSE PairEmits(k) <=> (Defined(k) \/
                                       (k \notin DOMAIN definitions /\ FirstHolder(k) # 0))]_vars
    /\ [](\A d \in DOMAIN DOMAIN_LOOKUP : \A k \in LocalKeys(d) : \A n \in 1..Len(parts) :
            (tokens[src[n]] = k /\ PassedBy(d, src[n]))
            => parts[n] =
                  IF Defined(k) THEN Str(definitions[k])
                  ELSE IF k \in DOMAIN definitions THEN "[" \o Str(k) \o "]"
                  ELSE DOMAIN_LOOKUP[active_domains[FirstHolder(k)]][k][lang])

\* {ns:cd}!bg rendered in English: bg resolves through cd
C5_Witness ==
    /\ pc = "done"
    /\ lang = "en"
    /\ msg = NsCd \o <<"!", "b", "g">>
    /\ tokens = << NsCd, <<"!">>, <<"b", "g">> >>
    /\ active_domains = << <<"c", "d">> >>
    /\ result = "(assert) bug"

\* C6: a token that precedes a control block is rendered as it would be without
\* the block, that is, in the context the scan had when it emitted the token.
C6_EarlierTokensUnaffected ==
    \A n \in 1..Len(parts) :
        (\E b \in (src[n] + 1)..Len(tokens) : kinds[b] = "block")
        => parts[n] = PartOf(tokens[src[n]], lang,
                             ctxAt[src[n]].domains, ctxAt[src[n]].definitions)

\* the tokens of s that are not blocks
Unblocked(s) == SelectSeq(s, LAMBDA tok : ~(tok[1] = "{" /\ tok[Len(tok)] = "}"))

\* the body of a token: its rendering where it resolves, the raw token in square
\* brackets where it does not; a bracket token (a token kind of its own in spec
\* section 3, not an unresolved run) is its own body
Body(tok, lng) ==
    IF Truthy(lookup(tok, lng, active_domains, definitions))
    THEN lookup(tok, lng, active_domains, definitions).text
    ELSE IF tok \in {<<"(">>, <<")">>, <<"[">>, <<"]">>} THEN tok[1]
    ELSE "[" \o Str(tok) \o "]"

Bodies(s, lng) ==
    LET rest == SelectSeq(s, LAMBDA tok : tok \notin DOMAIN TYPES)
    IN  [n \in 1..Len(rest) |-> Body(rest[n], lng)]

\* the rendering of the first type token of s, "" if it has none
FirstType(s, lng) ==
    LET at == {n \in 1..Len(s) : s[n] \in DOMAIN TYPES}
    IN  IF at = {} THEN ""
        ELSE TYPES[s[CHOOSE n \in at : \A o \in at : n <= o]][lng]

\* C9: the output is the rendering of the first type token in parentheses, then
\* the bodies of the other tokens, blocks left out, a token that does not resolve
\* as the raw token in square brackets, joined by a space in English and by
\* nothing in Chinese.
C9_RendererOutput ==
    (pc = "done" /\ tokens # <<>>) =>
        result =
            (IF FirstType(Unblocked(tokens), lang) # ""
             THEN "(" \o FirstType(Unblocked(tokens), lang) \o ") " ELSE "")
            \o Join(Bodies(Unblocked(tokens), lang), IF lang = "en" THEN " " ELSE "")


====
